---- MODULE Spec2Model ----
(***************************************************************************)
(* Model of the repair-and-execute pipeline of pdf_generator_all_in_one.py *)
(* (lavesa-st/inks): the per-dialect rewrite functions auto_fix_*, the     *)
(* execution strategies execute_*, the outcome recorder log_generation and *)
(* the coordinator generate_pdf, run by several concurrent requests over   *)
(* one shared working directory.                                           *)
(*                                                                         *)
(* Snippet text is a TLA+ string; the text operators below compute what    *)
(* the Python str methods compute.  Non-ASCII characters of the source are *)
(* written with ASCII characters that occur in no string constant of the   *)
(* source:  en-dash "^", em-dash "|", ellipsis "@", rightwards arrow "*",  *)
(* check mark "+", cross mark "?", left and right double quotation marks   *)
(* "$" and "%".                                                            *)
(***************************************************************************)
EXTENDS Integers, Sequences, FiniteSets, TLC

(***************************************************************************)
(* Python str operations                                                   *)
(***************************************************************************)

\* s[i:i+n] of Python, 1-based: the n characters of s starting at position i
Slice(s, i, n) == SubSeq(s, i, i + n - 1)

\* Python: p in s
Contains(s, p) == \E i \in 1..(Len(s) - Len(p) + 1) : Slice(s, i, Len(p)) = p

\* Python: s.find(p, start), 1-based; 0 when p does not occur at or after start
Find(s, p, start) ==
    LET hits == {i \in start..(Len(s) - Len(p) + 1) : Slice(s, i, Len(p)) = p}
    IN  IF hits = {} THEN 0 ELSE CHOOSE i \in hits : \A j \in hits : i <= j

\* Python: s.startswith(p)
StartsWith(s, p) == Len(p) <= Len(s) /\ SubSeq(s, 1, Len(p)) = p

RECURSIVE Replace(_, _, _)
\* Python: s.replace(old, new) for a non-empty old: the non-overlapping
\* occurrences of old, found left to right, each become new
Replace(s, old, new) ==
    LET i == Find(s, old, 1)
    IN  IF i = 0 THEN s
        ELSE SubSeq(s, 1, i - 1) \o new
             \o Replace(SubSeq(s, i + Len(old), Len(s)), old, new)

RECURSIVE Split(_, _)
\* Python: s.split(sep) for a non-empty sep, as a sequence of strings
Split(s, sep) ==
    LET i == Find(s, sep, 1)
    IN  IF i = 0 THEN <<s>>
        ELSE <<SubSeq(s, 1, i - 1)>> \o Split(SubSeq(s, i + Len(sep), Len(s)), sep)

Whitespace == {" ", "\n", "\t", "\r"}

\* Python: s.strip()
Strip(s) ==
    LET keep == {i \in 1..Len(s) : Slice(s, i, 1) \notin Whitespace}
    IN  IF keep = {} THEN ""
        ELSE SubSeq(s, CHOOSE i \in keep : \A j \in keep : i <= j,
                       CHOOSE i \in keep : \A j \in keep : j <= i)

\* the lower-case letter of each upper-case letter
LowerCase ==
    [A |-> "a", B |-> "b", C |-> "c", D |-> "d", E |-> "e", F |-> "f", G |-> "g",
     H |-> "h", I |-> "i", J |-> "j", K |-> "k", L |-> "l", M |-> "m", N |-> "n",
     O |-> "o", P |-> "p", Q |-> "q", R |-> "r", S |-> "s", T |-> "t", U |-> "u",
     V |-> "v", W |-> "w", X |-> "x", Y |-> "y", Z |-> "z"]

\* Python: c.lower() for one character
LowerChar(c) == IF c \in DOMAIN LowerCase THEN LowerCase[c] ELSE c

RECURSIVE Lower(_)
\* Python: s.lower(), character by character
Lower(s) ==
    IF s = "" THEN ""
    ELSE IF Len(s) = 1 THEN LowerChar(s)
    ELSE Lower(SubSeq(s, 1, Len(s) \div 2)) \o Lower(SubSeq(s, Len(s) \div 2 + 1, Len(s)))

(***************************************************************************)
(* Rewrite rule set.  A rewrite state is the pair the auto_fix_* functions *)
(* carry through their rules: the current code and the fix list so far.    *)
(***************************************************************************)

Fix(code, fixes) == [code |-> code, fixes |-> fixes]

RECURSIVE ApplyTable(_, _, _)
\* `for old, new in table.items(): if old in code: code = code.replace(old,
\* new); fixes_applied.append(msg)` over the entries of a dict literal in
\* insertion order; an entry is <<old, new, msg>>
ApplyTable(st, table, k) ==
    IF k > Len(table) THEN st
    ELSE IF Contains(st.code, table[k][1])
    THEN ApplyTable(Fix(Replace(st.code, table[k][1], table[k][2]),
                        Append(st.fixes, table[k][3])),
                    table, k + 1)
    ELSE ApplyTable(st, table, k + 1)

\* the entries of a table whose rule tests and replaces `old` by `new` and
\* reports  prefix + old + " * " + new  ("*" is the arrow)
Entries(pairs, prefix) ==
    [k \in 1..Len(pairs) |->
        <<pairs[k][1], pairs[k][2], prefix \o pairs[k][1] \o " * " \o pairs[k][2]>>]

\* `fixes_applied = []` at the head of every auto_fix_* function: the list is
\* a new object for each call, whatever list an earlier call has left behind
NewFixList_shared(earlier) == earlier

NewFixList(earlier) == <<>>

\* the three replace calls the quote rule of the source makes, as the
\* interpreter reads them
SmartQuotes(st) ==
    IF \/ Contains(st.code, "\"")
       \/ Contains(st.code, "\"")
       \/ Contains(st.code, " in code or ")
    THEN Fix(Replace(Replace(Replace(st.code, "\"", "\""), "\"", "\""),
                     ", \"'\").replace(", "'"),
             Append(st.fixes, "Fixed smart quotes * regular quotes"))
    ELSE st

unicode_fixes ==
    Entries(<< <<"^", "-">>,
               <<"|", "-">>,
               <<"@", "...">>,
               <<": \"'\",  # left single quote\n            ", "'">> >>,
            "Fixed unicode character: ")

reportlab_imports ==
    "from reportlab.lib.pagesizes import A4, letter\nfrom reportlab.lib import colors\nfrom reportlab.lib.units import inch, mm, cm, pica\nfrom reportlab.platypus import (\n    SimpleDocTemplate, BaseDocTemplate, PageTemplate, Frame, Paragraph, Spacer, \n    Table, TableStyle, PageBreak, KeepTogether, Flowable, Image, NextPageTemplate\n)\nfrom reportlab.lib.styles import getSampleStyleSheet, ParagraphStyle\nfrom reportlab.pdfbase import pdfmetrics\nfrom reportlab.pdfbase.ttfonts import TTFont\nfrom reportlab.graphics.shapes import Drawing, Rect, Circle, Line\nfrom reportlab.graphics.charts.linecharts import HorizontalLineChart\nfrom reportlab.graphics.charts.piecharts import Pie\nimport os\nimport sys\n\n"

PyImports(st) ==
    IF ~Contains(st.code, "from reportlab") /\ ~Contains(st.code, "import reportlab")
    THEN Fix(reportlab_imports \o st.code,
             Append(st.fixes, "Added comprehensive ReportLab imports"))
    ELSE st

path_fixes ==
    Entries(<< <<"/mnt/data/", "./">>,
               <<"~/", "./">>,
               <<"C:\\", "./">>,
               <<"D:\\", "./">> >>,
            "Fixed file path: ")

var_names ==
    << <<"fileName", "file_name">>,
       <<"filename", "file_path">>,
       <<"pdfFile", "pdf_file">>,
       <<"outputFile", "output_file">> >>

\* the rule tests and replaces  old + " ="  and reports the bare names
var_fixes ==
    [k \in 1..Len(var_names) |->
        <<var_names[k][1] \o " =", var_names[k][2] \o " =",
          "Fixed variable name: " \o var_names[k][1] \o " * " \o var_names[k][2]>>]

MainGuard == "if __name__ == \"__main__\":"

EntryWords == <<"build", "generate", "create">>

\* the `def` lines whose text holds one of the entry words, in line order, each
\* reduced to  line.split('def ')[1].split('(')[0]
FunctionNames(code) ==
    LET lines == Split(code, "\n")
        isDef(line) == /\ StartsWith(Strip(line), "def ")
                       /\ \E w \in 1..Len(EntryWords) : Contains(line, EntryWords[w])
        name(line) == Split(Split(line, "def ")[2], "(")[1]
    IN  [k \in 1..Cardinality({i \in 1..Len(lines) : isDef(lines[i])}) |->
            name(lines[CHOOSE i \in 1..Len(lines) :
                        /\ isDef(lines[i])
                        /\ Cardinality({j \in 1..i : isDef(lines[j])}) = k])]

\* entry-point completion: the if / elif / elif chain of auto_fix_python_code
PyEntryPoint(st) ==
    LET code == st.code
        names == FunctionNames(code)
    IN  IF Contains(code, "def build_pdf(") /\ Contains(code, MainGuard)
        THEN IF ~Contains(Split(code, MainGuard)[2], "build_pdf(")
             THEN Fix(code \o "\n\n# Auto-added function call\nbuild_pdf()",
                      Append(st.fixes, "Added missing function call"))
             ELSE st
        ELSE IF /\ Contains(code, "def ")
                /\ \E w \in 1..Len(EntryWords) : Contains(code, EntryWords[w])
        THEN IF names # <<>>
             THEN Fix(code \o "\n\n# Auto-added function call\n" \o names[1] \o "()",
                      Append(st.fixes, "Added missing " \o names[1] \o "() call"))
             ELSE st
        ELSE IF /\ Contains(code, "Paragraph(") \/ Contains(code, "Spacer(")
                /\ ~Contains(code, "story = []")
        THEN LET pdf_line_index == Find(code, "pdf = SimpleDocTemplate(", 1)
                 next_line_index == Find(code, "\n", pdf_line_index)
                 withStory ==
                     IF pdf_line_index # 0 /\ next_line_index # 0
                     THEN Fix(SubSeq(code, 1, next_line_index - 1) \o "\nstory = []"
                                  \o SubSeq(code, next_line_index, Len(code)),
                              Append(st.fixes, "Added missing story list"))
                     ELSE st
             IN  IF /\ Contains(withStory.code, "story.append(")
                    /\ ~Contains(withStory.code, "pdf.build(")
                    /\ ~Contains(withStory.code, "doc.build(")
                 THEN Fix(withStory.code \o "\n\npdf.build(story)",
                          Append(withStory.fixes, "Added missing pdf.build(story)"))
                 ELSE withStory
        ELSE st

alignment_fixes ==
    Entries(<< <<"alignment=center", "alignment=1">>,
               <<"alignment=\"center\"", "alignment=1">>,
               <<"alignment=left", "alignment=0">>,
               <<"alignment=\"left\"", "alignment=0">>,
               <<"alignment=right", "alignment=2">>,
               <<"alignment=\"right\"", "alignment=2">>,
               <<"alignment=justify", "alignment=4">>,
               <<"alignment=\"justify\"", "alignment=4">> >>,
            "Fixed alignment: ")

syntax_fixes ==
    Entries(<< <<"colors.hexcolor(", "colors.HexColor(">>,
               <<"Colors.HexColor(", "colors.HexColor(">>,
               <<"getSampleStylesheet()", "getSampleStyleSheet()">>,
               <<"getStyleSheet()", "getSampleStyleSheet()">> >>,
            "Fixed syntax: ")

TryWrapper ==
    "try:\n    build_pdf()\n    print(\"+ PDF generated successfully!\")\nexcept Exception as e:\n    print(f\"? Error: {e}\")"

\* defensive wrapping
PyErrorHandling(st) ==
    IF /\ Contains(st.code, "def ")
       /\ ~Contains(st.code, "try:")
       /\ ~Contains(st.code, "except")
       /\ Contains(st.code, "build_pdf()")
    THEN Fix(Replace(st.code, "build_pdf()", TryWrapper),
             Append(st.fixes, "Added error handling"))
    ELSE st

\* auto_fix_python_code(code), started on the fix list  fixes_applied = []
auto_fix_python_from(code, fixes_applied) ==
    PyErrorHandling(
      ApplyTable(
        ApplyTable(
          PyEntryPoint(
            ApplyTable(
              ApplyTable(
                PyImports(
                  ApplyTable(SmartQuotes(Fix(code, fixes_applied)), unicode_fixes, 1)),
                path_fixes, 1),
              var_fixes, 1)),
          alignment_fixes, 1),
        syntax_fixes, 1))

\* `if absent not in code and present in code: code = prefix + code`
HtmlDoctype(st) ==
    IF ~Contains(st.code, "<!DOCTYPE") /\ Contains(st.code, "<html")
    THEN Fix("<!DOCTYPE html>\n" \o st.code, Append(st.fixes, "Added missing DOCTYPE"))
    ELSE st

HtmlCharset(st) ==
    IF ~Contains(st.code, "<meta charset=") /\ Contains(st.code, "<head>")
    THEN Fix(Replace(st.code, "<head>", "<head>\n    <meta charset=\"UTF-8\">"),
             Append(st.fixes, "Added UTF-8 charset"))
    ELSE st

HtmlViewport(st) ==
    IF ~Contains(st.code, "<meta name=\"viewport\"") /\ Contains(st.code, "<head>")
    THEN Fix(Replace(st.code, "<head>",
                     "<head>\n    <meta name=\"viewport\" content=\"width=device-width, initial-scale=1.0\">"),
             Append(st.fixes, "Added viewport meta tag"))
    ELSE st

html_document_head ==
    "<!DOCTYPE html>\n<html lang=\"en\">\n<head>\n    <meta charset=\"UTF-8\">\n    <meta name=\"viewport\" content=\"width=device-width, initial-scale=1.0\">\n    <title>Generated PDF Document</title>\n    <style>\n        body { \n            font-family: 'Segoe UI', Tahoma, Geneva, Verdana, sans-serif; \n            margin: 20px; \n            line-height: 1.6;\n            color: #333;\n        }\n        h1 { color: #213A5C; }\n        h2 { color: #5A7CA4; }\n        .container { max-width: 800px; margin: 0 auto; }\n    </style>\n</head>\n<body>\n    <div class=\"container\">\n"

html_document_tail == "\n    </div>\n</body>\n</html>"

\* a variant of the structure rule that wraps the snippet in the body container
\* alone, without doctype, html element and head
HtmlStructure_body_only(st) ==
    IF ~Contains(st.code, "<html")
    THEN Fix("<body>\n    <div class=\"container\">\n" \o st.code \o html_document_tail,
             Append(st.fixes, "Added complete HTML5 document structure"))
    ELSE st

\* the structure rule: a snippet without `<html` is put into the template
HtmlStructure(st) ==
    IF ~Contains(st.code, "<html")
    THEN Fix(html_document_head \o st.code \o html_document_tail,
             Append(st.fixes, "Added complete HTML5 document structure"))
    ELSE st

\* the guard `old != '&amp;'` of the loop is true of every key of the table
html_fixes ==
    Entries(<< <<"<br>", "<br/>">>,
               <<"<hr>", "<hr/>">>,
               <<"<img ", "<img ">>,
               <<"&", "&amp;">> >>,
            "Fixed HTML: ")

HtmlTitle(st) ==
    IF ~Contains(st.code, "<title>") /\ Contains(st.code, "<head>")
    THEN Fix(Replace(st.code, "</head>", "    <title>PDF Document</title>\n</head>"),
             Append(st.fixes, "Added missing title tag"))
    ELSE st

\* auto_fix_html_code(code), started on the fix list  fixes_applied = []
auto_fix_html_from(code, fixes_applied) ==
    HtmlTitle(
      ApplyTable(
        HtmlStructure(HtmlViewport(HtmlCharset(HtmlDoctype(
          SmartQuotes(Fix(code, fixes_applied)))))),
        html_fixes, 1))

JsRequire(st) ==
    IF /\ Contains(st.code, "jsPDF")
       /\ ~Contains(st.code, "require(")
       /\ ~Contains(st.code, "import")
    THEN Fix("const { jsPDF } = require('jspdf');\n" \o st.code,
             Append(st.fixes, "Added jsPDF import"))
    ELSE st

JsSave(st) ==
    IF ~Contains(st.code, "doc.save(") /\ Contains(st.code, "new jsPDF()")
    THEN Fix(st.code \o "\ndoc.save('document.pdf');",
             Append(st.fixes, "Added missing doc.save()"))
    ELSE st

\* auto_fix_javascript_code(code), started on the fix list  fixes_applied = []
auto_fix_javascript_from(code, fixes_applied) ==
    JsSave(JsRequire(Fix(code, fixes_applied)))

matplotlib_imports ==
    "import matplotlib\nmatplotlib.use('Agg')  # Backend for server environment\nimport matplotlib.pyplot as plt\nimport numpy as np\nimport pandas as pd\n"

MplImports(st) ==
    IF /\ ~Contains(st.code, "matplotlib")
       /\ Contains(st.code, "plt.") \/ Contains(st.code, "pyplot")
    THEN Fix(matplotlib_imports \o st.code,
             Append(st.fixes, "Added comprehensive matplotlib imports"))
    ELSE st

MplBackend(st) ==
    IF ~Contains(st.code, "matplotlib.use(") /\ Contains(st.code, "import matplotlib")
    THEN Fix(Replace(st.code, "import matplotlib", "import matplotlib\nmatplotlib.use('Agg')"),
             Append(st.fixes, "Added Agg backend for server environment"))
    ELSE st

MplNumpy(st) ==
    IF /\ Contains(st.code, "np.") \/ Contains(st.code, "numpy")
       /\ ~Contains(st.code, "import numpy")
    THEN Fix("import numpy as np\n" \o st.code, Append(st.fixes, "Added numpy import"))
    ELSE st

MplPandas(st) ==
    IF /\ Contains(st.code, "pd.") \/ Contains(st.code, "DataFrame")
       /\ ~Contains(st.code, "import pandas")
    THEN Fix("import pandas as pd\n" \o st.code, Append(st.fixes, "Added pandas import"))
    ELSE st

mpl_fixes ==
    Entries(<< <<"plt.show()", "# plt.show() removed for PDF generation">>,
               <<"pyplot.show()", "# pyplot.show() removed for PDF generation">>,
               <<"plt.ion()", "# plt.ion() removed for server environment">>,
               <<"plt.ioff()", "# plt.ioff() removed for server environment">> >>,
            "Fixed matplotlib: ")

MplSavefig(st) ==
    IF /\ Contains(st.code, "plt.")
       /\ ~Contains(st.code, "savefig(")
       /\ ~Contains(st.code, "save(")
    THEN Fix(st.code \o "\n\n# Auto-added save commands\nplt.tight_layout()\nplt.savefig('chart.pdf', bbox_inches='tight', dpi=300)\nplt.close()",
             Append(st.fixes, "Added plt.savefig() with tight layout and close"))
    ELSE st

MplFormat(st) ==
    IF ~Contains(st.code, "savefig(") THEN st
    ELSE IF Contains(st.code, ".png")
    THEN Fix(Replace(st.code, ".png", ".pdf"),
             Append(st.fixes, "Changed output format from PNG to PDF"))
    ELSE IF Contains(st.code, ".jpg") \/ Contains(st.code, ".jpeg")
    THEN Fix(Replace(Replace(st.code, ".jpg", ".pdf"), ".jpeg", ".pdf"),
             Append(st.fixes, "Changed output format from JPEG to PDF"))
    ELSE st

\* auto_fix_matplotlib_code(code), started on the fix list  fixes_applied = []
auto_fix_matplotlib_from(code, fixes_applied) ==
    MplFormat(MplSavefig(
      ApplyTable(
        MplPandas(MplNumpy(MplBackend(MplImports(
          SmartQuotes(Fix(code, fixes_applied)))))),
        mpl_fixes, 1)))

(***************************************************************************)
(* The pipeline: generate_pdf run by NumRequests concurrent requests.      *)
(***************************************************************************)

\* requests served concurrently; they are numbered in their order of arrival
NumRequests == 2

Reqs == 1..NumRequests

\* Python's None and a present value
None == <<>>
Some(v) == <<v>>

\* the form fields a request may carry: a function from field names to text
Forms ==
    { [code |-> "v = getattr(OPEN(f), 'Eval(')"],
      [language |-> " Python ", code |-> "  import reportlab\ndef build_pdf():\n    pass\n"],
      [language |-> "python", code |-> "exec(compile(open(temp_file_path).read(), 'f', 'exec'))"],
      [language |-> "python", code |-> " \n "],
      [language |-> "matplotlib", code |-> "plt.plot([1, 2])"],
      [language |-> "HTML", code |-> "<h1>Hi</h1>"],
      [language |-> "javascript", code |-> "var doc = new jsPDF();"],
      [language |-> "JavaScript", code |-> "Eval(code)"],
      [language |-> "ruby", code |-> "puts 1"] }

\* request.form.get(key, default)
FormGet(form, key, default) == IF key \in DOMAIN form THEN form[key] ELSE default

\* the language and the snippet generate_pdf reads from a form
FormInput(form) ==
    [language |-> Strip(Lower(FormGet(form, "language", "python"))),
     code |-> Strip(FormGet(form, "code", ""))]

\* names a snippet may give the PDF it writes into the working directory
PdfNames == {"chart.pdf"}

\* sizes in bytes of a PDF a snippet writes: an empty file or a non-empty one
PdfSizes == {0, 1}

\* the fixed output path of the markup strategy
html_pdf_path == "html_document.pdf"

supported_languages == <<"python", "html", "matplotlib", "javascript">>

dangerous_patterns ==
    <<"import subprocess", "__import__", "eval(", "exec(", "open(",
      "file(", "input(", "raw_input(", "compile(", "globals()",
      "locals()", "vars()", "dir()", "hasattr(", "getattr(",
      "setattr(", "delattr(", "reload(", "memoryview(">>

safe_contexts == <<"exec(compile(open(temp_file_path).read()">>

\* a variant of FirstDangerous that looks for the patterns in the snippet as
\* it is written, without `code_lower = user_code.lower()`
FirstDangerous_cased(user_code) ==
    LET safe == \E c \in 1..Len(safe_contexts) : Contains(user_code, safe_contexts[c])
        hits == {k \in 1..Len(dangerous_patterns) :
                    Contains(user_code, dangerous_patterns[k]) /\ ~safe}
    IN  IF hits = {} THEN 0 ELSE CHOOSE k \in hits : \A j \in hits : k <= j

\* a variant of FirstDangerous without the test `not any(safe in user_code ...)`
FirstDangerous_no_safe_context(user_code) ==
    LET code_lower == Lower(user_code)
        hits == {k \in 1..Len(dangerous_patterns) :
                    Contains(code_lower, dangerous_patterns[k])}
    IN  IF hits = {} THEN 0 ELSE CHOOSE k \in hits : \A j \in hits : k <= j

\* a variant of FirstDangerous that returns on the pattern that stands first in
\* the snippet, not on the one that comes first in the list
FirstDangerous_leftmost(user_code) ==
    LET code_lower == Lower(user_code)
        safe == \E c \in 1..Len(safe_contexts) : Contains(user_code, safe_contexts[c])
        hits == {k \in 1..Len(dangerous_patterns) :
                    Contains(code_lower, dangerous_patterns[k]) /\ ~safe}
        at(k) == Find(code_lower, dangerous_patterns[k], 1)
    IN  IF hits = {} THEN 0
        ELSE CHOOSE k \in hits :
                 \A j \in hits : at(k) < at(j) \/ (at(k) = at(j) /\ k <= j)

\* the loop `for pattern in dangerous_patterns` of generate_pdf: the index of
\* the pattern it returns on, 0 when it runs to its end
FirstDangerous(user_code) ==
    LET code_lower == Lower(user_code)
        safe == \E c \in 1..Len(safe_contexts) : Contains(user_code, safe_contexts[c])
        hits == {k \in 1..Len(dangerous_patterns) :
                    Contains(code_lower, dangerous_patterns[k]) /\ ~safe}
    IN  IF hits = {} THEN 0 ELSE CHOOSE k \in hits : \A j \in hits : k <= j

RECURSIVE Join(_, _)
\* Python: sep.join(parts)
Join(parts, sep) ==
    IF parts = <<>> THEN ""
    ELSE IF Len(parts) = 1 THEN parts[1]
    ELSE parts[1] \o sep \o Join(Tail(parts), sep)

\* json.dumps of one string: quoted, with backslash, quote and newline escaped
\* and the non-ASCII characters written as \uXXXX
JsonString(t) ==
    "\"" \o Replace(Replace(Replace(Replace(Replace(Replace(Replace(Replace(Replace(t,
        "\\", "\\\\"), "\"", "\\\""), "\n", "\\n"),
        "*", "\\u2192"), "^", "\\u2013"), "|", "\\u2014"), "@", "\\u2026"),
        "+", "\\u2705"), "?", "\\u274c") \o "\""

\* json.dumps of a list of strings
JsonDumps(list) == "[" \o Join([k \in 1..Len(list) |-> JsonString(list[k])], ", ") \o "]"

\* the arguments of one call of log_generation
LogArgs(language, code_length, success, error_message, fixes_applied, file_size, generation_time) ==
    [language |-> language, code_length |-> code_length, success |-> success,
     error_message |-> error_message, fixes_applied |-> fixes_applied,
     file_size |-> file_size, generation_time |-> generation_time]

\* the PDFGeneration row log_generation builds from its arguments
LogEntry(args) ==
    [language |-> args.language, code_length |-> args.code_length,
     success |-> args.success, error_message |-> args.error_message,
     fixes_applied |-> IF args.fixes_applied # None /\ args.fixes_applied[1] # <<>>
                       THEN Some(JsonDumps(args.fixes_applied[1])) ELSE None,
     file_size |-> args.file_size, generation_time |-> args.generation_time]

\* whether a call of log_generation raises into its caller when the store
\* fails: the `except Exception` of log_generation logs the error and returns
LogRaises_uncaught(store) == store = "down"

LogRaises(store) == FALSE

VARIABLES
    database,         \* "unset": no DATABASE_URL; else the store is "up" or "down"
    workdir,          \* the PDF files of the working directory, oldest ctime first
    temp_files,       \* the temporary source files that exist, by creating request
    pc,               \* the place each request has reached in generate_pdf
    language,         \* locals of generate_pdf, per request
    user_code,
    fixed_code,
    fixes_applied,
    pdf_file,
    response,         \* what generate_pdf returned, None until it returns
    log_calls,        \* the calls of log_generation each request made, in order
    invoked,          \* the pipeline steps each request has entered, in order
    failure,          \* the return statement a request left generate_pdf by
    fix_list          \* the fix list the latest call of an auto_fix_* function built

vars == <<database, workdir, temp_files, pc, language, user_code,
          fixed_code, fixes_applied, pdf_file, response, log_calls, invoked, failure,
          fix_list>>

\* a variant of ErrorStatus that answers every error as an internal one
ErrorStatus_uniform(class) == 500

\* the status each `return Response(error_msg, status=...)` of generate_pdf gives
ErrorStatus(class) ==
    CASE class = "unsupported" -> 400
      [] class = "empty"       -> 400
      [] class = "dangerous"   -> 400
      [] class = "execution"   -> 500
      [] class = "send"        -> 500
      [] class = "no_pdf"      -> 400
      [] class = "unexpected"  -> 500

\* Response(error_msg, status=...)
ErrorResponse(error_msg, class) ==
    [status |-> ErrorStatus(class), body |-> error_msg, artifact |-> None]

\* send_file(pdf_file, as_attachment=True): the file as it is when it is sent
FileResponse(file) == [status |-> 200, body |-> file.name, artifact |-> Some(file)]

\* text of the errors the environment raises
FormError == "400 Bad Request: The browser (or proxy) sent a request that this server could not understand."
SnippetError == "name 'story' is not defined"
RenderError == "render failed"
SendError == "[Errno 2] No such file or directory"
JavascriptError == "JavaScript execution requires Node.js setup. Please use Python or HTML instead."

Elapsed == Some("elapsed")

\* what one call of log_generation does: with a store it adds the row, or fails
\* inside its try block; without one it only writes to the application log
LogCall(args) ==
    [args |-> args,
     outcome |-> CASE database = "unset" -> "skipped"
                   [] database = "up"    -> "stored"
                   [] database = "down"  -> "failed"]

\* a call of log_generation lets an exception out
Raised == LogRaises(database)

\* the tail every failing branch of generate_pdf shares: one call of
\* log_generation, then `return Response(error_msg, status)`.  An exception out
\* of log_generation leaves the branch for the outermost handler, whose own
\* call of log_generation raises out of generate_pdf.
LogAndReturn(r, entered, args, resp, class) ==
    /\ log_calls' = [log_calls EXCEPT ![r] =
           IF Raised /\ class # "unexpected"
           THEN @ \o <<LogCall(args),
                       LogCall(LogArgs(language[r], Len(user_code[r]), FALSE,
                                       Some("Unexpected error: database"), None, None, Elapsed))>>
           ELSE Append(@, LogCall(args))]
    /\ invoked' = [invoked EXCEPT ![r] =
           @ \o entered \o (IF Raised THEN <<"record">> ELSE <<"record", "respond">>)]
    /\ response' = [response EXCEPT ![r] = IF Raised THEN None ELSE Some(resp)]
    /\ failure' = [failure EXCEPT ![r] = class]
    /\ pc' = [pc EXCEPT ![r] = IF Raised THEN "raised" ELSE "done"]

Init ==
    /\ database \in {"unset", "up", "down"}
    /\ workdir = <<>>
    /\ temp_files = {}
    /\ pc = [r \in Reqs |-> "start"]
    /\ language = [r \in Reqs |-> "unknown"]
    /\ user_code = [r \in Reqs |-> ""]
    /\ fixed_code = [r \in Reqs |-> ""]
    /\ fixes_applied = [r \in Reqs |-> <<>>]
    /\ pdf_file = [r \in Reqs |-> None]
    /\ response = [r \in Reqs |-> None]
    /\ log_calls = [r \in Reqs |-> <<>>]
    /\ invoked = [r \in Reqs |-> <<>>]
    /\ failure = [r \in Reqs |-> ""]
    /\ fix_list = <<>>

\* generate_pdf up to the end of input validation's reads: the two form fields
\* are read, or reading the form raises and the outermost handler answers
ReadForm(r) ==
    /\ pc[r] = "start"
    /\ \A q \in Reqs : q < r => pc[q] # "start"
    /\ \E form \in Forms, parsed \in BOOLEAN :
         IF parsed
         THEN /\ language' = [language EXCEPT ![r] = FormInput(form).language]
              /\ user_code' = [user_code EXCEPT ![r] = FormInput(form).code]
              /\ pc' = [pc EXCEPT ![r] = "validate"]
              /\ UNCHANGED <<response, log_calls, invoked, failure>>
         ELSE /\ UNCHANGED <<language, user_code>>
              /\ LogAndReturn(r, <<>>,
                     LogArgs(language[r], Len(user_code[r]), FALSE,
                             Some("Unexpected error: " \o FormError), None, None, Elapsed),
                     ErrorResponse("Unexpected error: " \o FormError, "unexpected"),
                     "unexpected")
    /\ UNCHANGED <<fix_list, database, workdir, temp_files, fixed_code,
                   fixes_applied, pdf_file>>

\* a variant of Supported that lets every language through
Supported_any(lang) == TRUE

\* `language in supported_languages`
Supported(lang) == \E k \in 1..Len(supported_languages) : supported_languages[k] = lang

UnsupportedMessage(lang) ==
    "Unsupported language: " \o lang \o ". Supported: " \o Join(supported_languages, ", ")

\* input validation: the language, then the emptiness of the snippet
Validate(r) ==
    /\ pc[r] = "validate"
    /\ IF ~Supported(language[r])
       THEN LogAndReturn(r, <<"validate">>,
                LogArgs(language[r], Len(user_code[r]), FALSE,
                        Some(UnsupportedMessage(language[r])), None, None, None),
                ErrorResponse(UnsupportedMessage(language[r]), "unsupported"),
                "unsupported")
       ELSE IF user_code[r] = ""
       THEN LogAndReturn(r, <<"validate">>,
                LogArgs(language[r], 0, FALSE,
                        Some("Please enter some code to generate PDF"), None, None, None),
                ErrorResponse("Please enter some code to generate PDF", "empty"),
                "empty")
       ELSE /\ pc' = [pc EXCEPT ![r] = "filter"]
            /\ invoked' = [invoked EXCEPT ![r] = Append(@, "validate")]
         /\ UNCHANGED <<response, log_calls, failure>>
    /\ UNCHANGED <<fix_list, database, workdir, temp_files, language, user_code,
                   fixed_code, fixes_applied, pdf_file>>

\* a variant of DangerousMessage that leaves the pattern out
DangerousMessage_generic(pattern) == "Code contains a potentially dangerous pattern"

DangerousMessage(pattern) == "Code contains potentially dangerous pattern: " \o pattern

\* the security check: the request is answered on the first pattern found
Filter(r) ==
    /\ pc[r] = "filter"
    /\ LET k == FirstDangerous(user_code[r])
       IN  IF k # 0
           THEN LogAndReturn(r, <<"filter">>,
                    LogArgs(language[r], Len(user_code[r]), FALSE,
                            Some(DangerousMessage(dangerous_patterns[k])), None, None, None),
                    ErrorResponse(DangerousMessage(dangerous_patterns[k]), "dangerous"),
                    "dangerous")
           ELSE /\ pc' = [pc EXCEPT ![r] = "rewrite"]
                /\ invoked' = [invoked EXCEPT ![r] = Append(@, "filter")]
             /\ UNCHANGED <<response, log_calls, failure>>
    /\ UNCHANGED <<fix_list, database, workdir, temp_files, language, user_code,
                   fixed_code, fixes_applied, pdf_file>>

\* the auto_fix_* function generate_pdf calls for a language; `earlier` is the
\* fix list the previous call of an auto_fix_* function built
auto_fix(lang, code, earlier) ==
    CASE lang = "python"     -> auto_fix_python_from(code, NewFixList(earlier))
      [] lang = "html"       -> auto_fix_html_from(code, NewFixList(earlier))
      [] lang = "matplotlib" -> auto_fix_matplotlib_from(code, NewFixList(earlier))
      [] lang = "javascript" -> auto_fix_javascript_from(code, NewFixList(earlier))

\* the languages the if / elif chain of generate_pdf has a branch for
Dialects == {"python", "html", "matplotlib", "javascript"}

\* `fixed_code, fixes_applied = auto_fix_..._code(user_code)`, or the
\* `raise ValueError` of the closing else branch
Rewrite(r) ==
    /\ pc[r] = "rewrite"
    /\ IF language[r] \in Dialects
       THEN LET fixed == auto_fix(language[r], user_code[r], fix_list)
            IN  /\ fixed_code' = [fixed_code EXCEPT ![r] = fixed.code]
                /\ fixes_applied' = [fixes_applied EXCEPT ![r] = fixed.fixes]
                /\ fix_list' = fixed.fixes
                /\ pc' = [pc EXCEPT ![r] = "execute"]
                /\ invoked' = [invoked EXCEPT ![r] = Append(@, "rewrite")]
                /\ UNCHANGED <<response, log_calls, failure>>
       ELSE /\ LogAndReturn(r, <<>>,
                    LogArgs(language[r], Len(user_code[r]), FALSE,
                            Some("Code execution error: Unsupported language: " \o language[r]),
                            Some(<<>>), None, Elapsed),
                    ErrorResponse("Code execution error: Unsupported language: " \o language[r],
                                  "execution"),
                    "execution")
            /\ UNCHANGED <<fixed_code, fixes_applied, fix_list>>
    /\ UNCHANGED <<database, workdir, temp_files, language, user_code, pdf_file>>

\* the working directory after `writer` has written a PDF: a file of that name
\* is replaced, and the written file has the latest ctime
WritePdf(dir, name, size, writer) ==
    Append(SelectSeq(dir, LAMBDA f : f.name # name),
           [name |-> name, size |-> size, writer |-> writer])

\* `max(pdf_files, key=os.path.getctime)` over the listing, None for no PDF
LatestPdf(dir) == IF dir = <<>> THEN None ELSE Some(dir[Len(dir)].name)

\* the `except Exception as code_error` branch of generate_pdf
ExecutionFailed(r, message) ==
    LogAndReturn(r, <<"execute">>,
        LogArgs(language[r], Len(user_code[r]), FALSE,
                Some("Code execution error: " \o message), Some(fixes_applied[r]), None, Elapsed),
        ErrorResponse("Code execution error: " \o message, "execution"),
        "execution")

\* execute_python_code up to the listing of the directory: the snippet is
\* written to a temporary file and executed.  The snippet returns, having
\* written a PDF or none; or it raises an Exception, and the file is removed
\* before the error is raised again; or it raises a BaseException that is no
\* Exception (SystemExit), which no handler of this program catches.
RunSnippet(r) ==
    /\ pc[r] = "execute"
    /\ language[r] \in {"python", "matplotlib"}
    /\ \E result \in {"returns", "writes", "raises", "exits"},
          name \in PdfNames, size \in PdfSizes :
         CASE result = "returns" ->
                /\ pc' = [pc EXCEPT ![r] = "listdir"]
                /\ invoked' = [invoked EXCEPT ![r] = Append(@, "execute")]
                /\ UNCHANGED <<workdir, temp_files, response, log_calls, failure>>
           [] result = "writes" ->
                /\ workdir' = WritePdf(workdir, name, size, r)
                /\ pc' = [pc EXCEPT ![r] = "listdir"]
                /\ invoked' = [invoked EXCEPT ![r] = Append(@, "execute")]
                /\ UNCHANGED <<temp_files, response, log_calls, failure>>
           [] result = "raises" ->
                /\ ExecutionFailed(r, SnippetError)
                /\ UNCHANGED <<workdir, temp_files>>
           [] result = "exits" ->
                /\ temp_files' = temp_files \cup {r}
                /\ pc' = [pc EXCEPT ![r] = "exited"]
                /\ invoked' = [invoked EXCEPT ![r] = Append(@, "execute")]
                /\ UNCHANGED <<workdir, response, log_calls, failure>>
    /\ UNCHANGED <<fix_list, database, language, user_code, fixed_code,
                   fixes_applied, pdf_file>>

\* the rest of execute_python_code: the most recently created PDF of the
\* working directory is the result
FindGeneratedPdf(r) ==
    /\ pc[r] = "listdir"
    /\ pdf_file' = [pdf_file EXCEPT ![r] = LatestPdf(workdir)]
    /\ pc' = [pc EXCEPT ![r] = "check"]
    /\ invoked' = [invoked EXCEPT ![r] = Append(@, "locate")]
    /\ UNCHANGED <<fix_list, database, workdir, temp_files, language, user_code,
                   fixed_code, fixes_applied, response, log_calls, failure>>

\* the markup strategy once the temporary file is written: the renderer writes
\* the fixed output path and the temporary file is removed, or the renderer
\* raises and the unlink call is never reached
RenderHtml(r, message) ==
    \E rendered \in BOOLEAN :
        IF rendered
        THEN /\ workdir' = WritePdf(workdir, html_pdf_path, 1, r)
             /\ pdf_file' = [pdf_file EXCEPT ![r] = Some(html_pdf_path)]
             /\ pc' = [pc EXCEPT ![r] = "check"]
             /\ invoked' = [invoked EXCEPT ![r] = @ \o <<"execute", "locate">>]
             /\ UNCHANGED <<temp_files, response, log_calls, failure>>
        ELSE /\ temp_files' = temp_files \cup {r}
             /\ ExecutionFailed(r, message)
             /\ UNCHANGED <<workdir, pdf_file>>

\* execute_html_code when its `import weasyprint` succeeds
execute_html_code(r) ==
    /\ pc[r] = "execute"
    /\ language[r] = "html"
    /\ RenderHtml(r, RenderError)
    /\ UNCHANGED <<fix_list, database, language, user_code, fixed_code,
                   fixes_applied>>

\* execute_html_code when its import raises ImportError: the subprocess exits
\* with status zero, or subprocess.run(check=True) raises
execute_html_with_wkhtmltopdf(r) ==
    /\ pc[r] = "execute"
    /\ language[r] = "html"
    /\ RenderHtml(r, "Command '['wkhtmltopdf', ...]' returned non-zero exit status 1.")
    /\ UNCHANGED <<fix_list, database, language, user_code, fixed_code,
                   fixes_applied>>

\* a variant of execute_javascript_code that returns no path instead of raising
execute_javascript_code_silent(r) ==
    /\ pc[r] = "execute"
    /\ language[r] = "javascript"
    /\ pdf_file' = [pdf_file EXCEPT ![r] = None]
    /\ pc' = [pc EXCEPT ![r] = "check"]
    /\ invoked' = [invoked EXCEPT ![r] = @ \o <<"execute", "locate">>]
    /\ UNCHANGED <<fix_list, database, workdir, temp_files, language, user_code,
                   fixed_code, fixes_applied, response, log_calls, failure>>

\* execute_javascript_code: it raises whatever the code is
execute_javascript_code(r) ==
    /\ pc[r] = "execute"
    /\ language[r] = "javascript"
    /\ ExecutionFailed(r, JavascriptError)
    /\ UNCHANGED <<fix_list, database, workdir, temp_files, language,
                   user_code, fixed_code, fixes_applied, pdf_file>>

\* the file of the working directory a path names, as a sequence of 0 or 1 files
FileAt(dir, path) ==
    IF path = None THEN <<>> ELSE SelectSeq(dir, LAMBDA f : f.name = path[1])

\* `if pdf_file and os.path.exists(pdf_file)`: the size is read and the success
\* is logged, or the request is answered that no PDF was generated
CheckPdf(r) ==
    /\ pc[r] = "check"
    /\ LET found == FileAt(workdir, pdf_file[r])
       IN  IF found # <<>>
           THEN /\ log_calls' = [log_calls EXCEPT ![r] = Append(@,
                       LogCall(LogArgs(language[r], Len(user_code[r]), TRUE, None,
                                       Some(fixes_applied[r]), Some(found[1].size), Elapsed)))]
                /\ pc' = [pc EXCEPT ![r] = IF Raised THEN "raised" ELSE "send"]
                /\ invoked' = [invoked EXCEPT ![r] = Append(@, "record")]
             /\ UNCHANGED <<response, failure>>
             ELSE LogAndReturn(r, <<>>,
                      LogArgs(language[r], Len(user_code[r]), FALSE,
                              Some("No PDF file was generated. Check your code for errors."),
                              Some(fixes_applied[r]), None, Elapsed),
                      ErrorResponse("No PDF file was generated. Check your code for errors.",
                                    "no_pdf"),
                      "no_pdf")
    /\ UNCHANGED <<fix_list, database, workdir, temp_files, language,
                   user_code, fixed_code, fixes_applied, pdf_file>>

\* `return send_file(pdf_file, as_attachment=True)`: the file is sent as it is
\* now, or send_file raises and the `except Exception as file_error` branch
\* logs a failure and answers it
SendFile(r) ==
    /\ pc[r] = "send"
    /\ \E sent \in BOOLEAN :
         IF sent /\ FileAt(workdir, pdf_file[r]) # <<>>
         THEN /\ response' = [response EXCEPT ![r] =
                      Some(FileResponse(FileAt(workdir, pdf_file[r])[1]))]
              /\ pc' = [pc EXCEPT ![r] = "done"]
              /\ invoked' = [invoked EXCEPT ![r] = Append(@, "respond")]
              /\ UNCHANGED <<log_calls, failure>>
         ELSE LogAndReturn(r, <<>>,
                  LogArgs(language[r], Len(user_code[r]), FALSE,
                          Some("Error sending file: " \o SendError),
                          Some(fixes_applied[r]), None, Elapsed),
                  ErrorResponse("Error sending file: " \o SendError, "send"),
                  "send")
    /\ UNCHANGED <<fix_list, database, workdir, temp_files, language,
                   user_code, fixed_code, fixes_applied, pdf_file>>

\* Validation, filtering and rewriting read and write only the locals of their
\* request: run between two steps of other requests or run in one go, they
\* leave the same state.  A request runs them in one go.
Scheduled(r) == \A q \in Reqs \ {r} : pc[q] \notin {"validate", "filter", "rewrite"}

Next ==
    \E r \in Reqs :
        /\ Scheduled(r)
        /\ \/ ReadForm(r)
           \/ Validate(r)
           \/ Filter(r)
           \/ Rewrite(r)
           \/ RunSnippet(r)
           \/ FindGeneratedPdf(r)
           \/ execute_html_code(r)
           \/ execute_html_with_wkhtmltopdf(r)
           \/ execute_javascript_code(r)
           \/ CheckPdf(r)
           \/ SendFile(r)

Spec == Init /\ [][Next]_vars

(***************************************************************************)
(* The rewrite functions on their own: each call r is one call of an       *)
(* auto_fix_* function, made after the calls before it.  language[r] and   *)
(* user_code[r] hold the function called and its argument, fixed_code[r]   *)
(* and fixes_applied[r] the pair it returned.                              *)
(***************************************************************************)

\* the texts the rewrite functions are called on: one that several rules of
\* every dialect change, and one that few rules change
FixTexts ==
    { "import reportlab\nfileName = 'C:\\a.pdf'\nplt.show()\n<br>A&B new jsPDF()",
      "x = 1" }

\* one call of the auto_fix_* function of a dialect
FixCall(r) ==
    /\ pc[r] = "start"
    /\ \A q \in Reqs : q < r => pc[q] # "start"
    /\ \E lang \in Dialects, text \in FixTexts :
         LET fixed == auto_fix(lang, text, fix_list)
         IN  /\ language' = [language EXCEPT ![r] = lang]
             /\ user_code' = [user_code EXCEPT ![r] = text]
             /\ fixed_code' = [fixed_code EXCEPT ![r] = fixed.code]
             /\ fixes_applied' = [fixes_applied EXCEPT ![r] = fixed.fixes]
             /\ fix_list' = fixed.fixes
    /\ pc' = [pc EXCEPT ![r] = "called"]
    /\ UNCHANGED <<database, workdir, temp_files, pdf_file, response, log_calls,
                   invoked, failure>>

FixNext == \E r \in Reqs : FixCall(r)

FixSpec == Init /\ [][FixNext]_vars

(***************************************************************************)
(* A rewrite function applied to a snippet and then to its own output:     *)
(* call 1 is made on a snippet, every later call on the code the call      *)
(* before it returned, by the same function.                               *)
(***************************************************************************)

\* the snippets the rewrite functions are called on, each with the dialect
\* whose function is called.  "$" and "%" stand for the typographic double
\* quotes U+201C and U+201D.
Snippets ==
    { [language |-> "python", code |-> "import reportlab\ntitle = \"Hi\""],
      [language |-> "python", code |-> "import reportlab\ntitle = $Hi%"],
      [language |-> "python", code |-> "import reportlab\nt = 'a^b@'"],
      [language |-> "python", code |-> "import reportlab\nfileName = 'a.pdf'"],
      [language |-> "python", code |-> "import reportlab\noutputFile = pdfFile = 1"],
      [language |-> "python", code |-> "import reportlab\nfilename = 'b'"],
      [language |-> "python", code |-> "import reportlab\nstory = []\nstory.append(Paragraph(1))"],
      [language |-> "python", code |-> "import reportlab\nstory=[]\nstory.append(Spacer(1, 2))"],
      [language |-> "python", code |-> "import reportlab\nstory=[]\nstory.append(Spacer(1, 2))\ndoc.build(story)"],
      [language |-> "python", code |-> "import reportlab\ndef build_pdf():\n    pass\n"],
      [language |-> "python", code |-> "import reportlab\ndef build_pdf():\n    pass\nbuild_pdf()\n"],
      [language |-> "python", code |-> "import reportlab\ndef create_report(n=1):\n    pass\n"],
      [language |-> "python", code |-> "import reportlab\ndef create_report(n=1):\n    pass\ncreate_report()"],
      [language |-> "python", code |-> "import reportlab\ndef build_pdf():\n    pass\nif __name__ == \"__main__\":\n    pass"],
      [language |-> "python", code |-> "import reportlab\ndef build_pdf():\n    pass\nif __name__ == \"__main__\":\n    build_pdf(1)"],
      [language |-> "python", code |-> "import reportlab\ndef build_pdf(path='a'):\n    pass\n"],
      [language |-> "python", code |-> "import reportlab\nx = 1"],
      [language |-> "python", code |-> "x = 1"],
      [language |-> "matplotlib", code |-> "plt.plot([1])"],
      [language |-> "matplotlib", code |-> "# matplotlib demo\nplt.plot([1])"],
      [language |-> "matplotlib", code |-> "import matplotlib.pyplot as plt\nplt.plot([1])"],
      [language |-> "matplotlib", code |-> "pyplot.plot([1])"],
      [language |-> "matplotlib", code |-> "x = np.zeros(3)"],
      [language |-> "matplotlib", code |-> "plt.savefig('a.png')"],
      [language |-> "matplotlib", code |-> "import matplotlib\nplt.plot([1])"],
      [language |-> "matplotlib", code |-> "import matplotlib\nimport matplotlib.pyplot as plt\nplt.plot([1])"],
      [language |-> "matplotlib", code |-> "plt.show()"],
      [language |-> "html", code |-> "<h1>Hi</h1>"],
      [language |-> "html", code |-> "a & b<br>"],
      [language |-> "html", code |-> "<html><body>x</body></html>"],
      [language |-> "html", code |-> "<p>x</p><hr>"],
      [language |-> "html", code |-> "a &amp; b"],
      [language |-> "html", code |-> "<head></head><p>x</p>"],
      [language |-> "javascript", code |-> "var doc = new jsPDF();"],
      [language |-> "javascript", code |-> "x"] }

\* auto_fix_<dialect>_code(code) called on a snippet
RewriteSnippet(r) ==
    /\ r = 1
    /\ pc[r] = "start"
    /\ \E s \in Snippets :
         LET fixed == auto_fix(s.language, s.code, fix_list)
         IN  /\ language' = [language EXCEPT ![r] = s.language]
             /\ user_code' = [user_code EXCEPT ![r] = s.code]
             /\ fixed_code' = [fixed_code EXCEPT ![r] = fixed.code]
             /\ fixes_applied' = [fixes_applied EXCEPT ![r] = fixed.fixes]
             /\ fix_list' = fixed.fixes
    /\ pc' = [pc EXCEPT ![r] = "called"]
    /\ UNCHANGED <<database, workdir, temp_files, pdf_file, response, log_calls,
                   invoked, failure>>

\* the same function called on the code the call before returned
RewriteAgain(r) ==
    /\ r > 1
    /\ pc[r] = "start"
    /\ pc[r - 1] = "called"
    /\ LET fixed == auto_fix(language[r - 1], fixed_code[r - 1], fix_list)
       IN  /\ language' = [language EXCEPT ![r] = language[r - 1]]
           /\ user_code' = [user_code EXCEPT ![r] = fixed_code[r - 1]]
           /\ fixed_code' = [fixed_code EXCEPT ![r] = fixed.code]
           /\ fixes_applied' = [fixes_applied EXCEPT ![r] = fixed.fixes]
           /\ fix_list' = fixed.fixes
    /\ pc' = [pc EXCEPT ![r] = "called"]
    /\ UNCHANGED <<database, workdir, temp_files, pdf_file, response, log_calls,
                   invoked, failure>>

RewriteNext == \E r \in Reqs : RewriteSnippet(r) \/ RewriteAgain(r)

RewriteSpec == Init /\ [][RewriteNext]_vars

(***************************************************************************)
(* Properties of the pipeline (checked of Spec) and of the rewrite         *)
(* functions (checked of FixSpec and of RewriteSpec)                       *)
(***************************************************************************)

\* C1: a request whose snippet holds, in any letter case, one of the
\* disallowed patterns and does not hold the carve-out substring never enters
\* a rewrite function nor an execution function, and generate_pdf answers a
\* request of a supported language with the filter's rejection.
C1_RejectedBeforeRewrite ==
    \A r \in Reqs :
        LET disallowed ==
                /\ \E k \in 1..Len(dangerous_patterns) :
                       Contains(Lower(user_code[r]), dangerous_patterns[k])
                /\ ~Contains(user_code[r], "exec(compile(open(temp_file_path).read()")
        IN  disallowed =>
                /\ \A i \in 1..Len(invoked[r]) :
                       invoked[r][i] \notin {"rewrite", "execute", "locate"}
                /\ pc[r] \in {"validate", "filter", "done"}
                /\ pc[r] = "done" /\ language[r] \in {"python", "html", "matplotlib", "javascript"}
                       => /\ failure[r] = "dangerous"
                          /\ response[r][1].status = 400

\* a python snippet that holds `eval(` in capitals has been rejected
C1_Witness ==
    \E r \in Reqs :
        /\ pc[r] = "done"
        /\ language[r] = "python"
        /\ Contains(user_code[r], "Eval(")
        /\ invoked[r] = <<"validate", "filter", "record", "respond">>
        /\ response[r][1].status = 400

\* C2: every request generate_pdf has answered, whatever path it took, made
\* exactly one call of log_generation: never none and never two.
C2_ExactlyOneRecorderCall ==
    \A r \in Reqs : pc[r] = "done" => Len(log_calls[r]) = 1

\* C3: a call of log_generation has success = TRUE if and only if execution
\* returned without error and the PDF was there and not empty: every success
\* call carries a size greater than zero, and a request whose PDF was there
\* and not empty when it was looked at made a success call.
C3_SuccessIffNonEmptyPdf ==
    \A r \in Reqs :
        /\ \A i \in 1..Len(log_calls[r]) :
               LET args == log_calls[r][i].args
               IN  args.success =>
                       /\ \E j \in 1..Len(invoked[r]) : invoked[r][j] = "locate"
                       /\ args.file_size # None
                       /\ args.file_size[1] > 0
        /\ pc[r] = "send" =>
               /\ log_calls[r] # <<>>
               /\ log_calls[r][Len(log_calls[r])].args.success

\* C4: the PDF a python or matplotlib request is answered with was written by
\* the execution of that request, not by an earlier or a concurrent request.
C4_OwnPdf ==
    \A r \in Reqs :
        /\ language[r] \in {"python", "matplotlib"}
        /\ pc[r] = "done"
        /\ response[r][1].artifact # None
        => response[r][1].artifact[1].writer = r

\* C5: the steps of one request are entered only in the order validate,
\* filter, rewrite, execute, locate, record, respond; rewrite is entered only
\* for a known dialect, a non-empty text and after the filter let the text
\* through; execute only after rewrite; and a request of an unknown dialect or
\* an empty text enters none of filter, rewrite and execute and ends with a
\* failure record and an error response.
C5_StepOrder ==
    \A r \in Reqs :
        LET steps == invoked[r]
            order == <<"validate", "filter", "rewrite", "execute", "locate",
                       "record", "respond">>
            Rank(step) == CHOOSE k \in 1..Len(order) : order[k] = step
            At(step) == {i \in 1..Len(steps) : steps[i] = step}
            known == language[r] \in {"python", "html", "matplotlib", "javascript"}
        IN  /\ \A i, j \in 1..Len(steps) : i < j => Rank(steps[i]) <= Rank(steps[j])
            /\ \A i, j \in 1..Len(steps) :
                   i < j /\ steps[i] = steps[j] => steps[i] = "record"
            /\ At("rewrite") # {} =>
                   /\ known
                   /\ user_code[r] # ""
                   /\ steps[1] = "validate" /\ steps[2] = "filter" /\ steps[3] = "rewrite"
                   /\ failure[r] # "dangerous"
            /\ At("execute") # {} => \E i \in At("rewrite") : \A j \in At("execute") : i < j
            /\ ~known \/ user_code[r] = "" =>
                   /\ At("filter") = {} /\ At("rewrite") = {} /\ At("execute") = {}
                   /\ pc[r] = "done" =>
                          /\ Len(log_calls[r]) = 1
                          /\ ~log_calls[r][1].args.success
                          /\ response[r][1].status \in {400, 500}
                          /\ response[r][1].artifact = None

\* one request has gone through all seven steps, and one of an unknown
\* dialect has been answered after validation alone
C5_Witness ==
    \E r, q \in Reqs :
        /\ invoked[r] = <<"validate", "filter", "rewrite", "execute", "locate",
                           "record", "respond">>
        /\ response[r][1].status = 200
        /\ language[q] = "ruby"
        /\ invoked[q] = <<"validate", "record", "respond">>

\* C6, as the claim states it: a javascript request, whatever its text, is
\* answered 500 with the advisory error of execute_javascript_code and no
\* PDF, and its record has success = FALSE.
C6_JavascriptAnyText ==
    \A r \in Reqs :
        language[r] = "javascript" /\ pc[r] = "done" =>
            /\ response[r][1].status = 500
            /\ response[r][1].body =
                   "Code execution error: JavaScript execution requires Node.js setup. Please use Python or HTML instead."
            /\ response[r][1].artifact = None
            /\ \A i \in 1..Len(log_calls[r]) : ~log_calls[r][i].args.success

\* C6, amended: a javascript request whose text is not empty and passes the
\* filter never gets past execution, and it is answered 500 with the advisory
\* error and no PDF after one record with success = FALSE.
C6_JavascriptAccepted ==
    \A r \in Reqs :
        LET disallowed ==
                /\ \E k \in 1..Len(dangerous_patterns) :
                       Contains(Lower(user_code[r]), dangerous_patterns[k])
                /\ ~Contains(user_code[r], "exec(compile(open(temp_file_path).read()")
        IN  language[r] = "javascript" /\ user_code[r] # "" /\ ~disallowed =>
                /\ pc[r] \in {"validate", "filter", "rewrite", "execute", "done"}
                /\ pc[r] = "done" =>
                       /\ response[r][1].status = 500
                       /\ response[r][1].body =
                              "Code execution error: JavaScript execution requires Node.js setup. Please use Python or HTML instead."
                       /\ response[r][1].artifact = None
                       /\ Len(log_calls[r]) = 1
                       /\ ~log_calls[r][1].args.success

\* a javascript request whose text passes the filter has been executed and
\* answered
C6_Witness ==
    \E r \in Reqs :
        /\ language[r] = "javascript"
        /\ user_code[r] = "var doc = new jsPDF();"
        /\ invoked[r] = <<"validate", "filter", "rewrite", "execute", "record", "respond">>
        /\ response[r][1].status = 500

\* C7: when the filter rejects a snippet the response has status 400, its
\* message names a pattern the snippet holds, and the one record written has
\* success = FALSE and no fix list.
C7_FilterRejection ==
    \A r \in Reqs :
        LET matched == {k \in 1..Len(dangerous_patterns) :
                           Contains(Lower(user_code[r]), dangerous_patterns[k])}
            rejected ==
                /\ language[r] \in {"python", "html", "matplotlib", "javascript"}
                /\ matched # {}
                /\ ~Contains(user_code[r], "exec(compile(open(temp_file_path).read()")
        IN  pc[r] = "done" /\ rejected =>
                /\ response[r][1].status = 400
                /\ \E k \in matched :
                       response[r][1].body =
                           "Code contains potentially dangerous pattern: " \o dangerous_patterns[k]
                /\ response[r][1].artifact = None
                /\ Len(log_calls[r]) = 1
                /\ ~log_calls[r][1].args.success
                /\ log_calls[r][1].args.fixes_applied = None
                /\ LogEntry(log_calls[r][1].args).fixes_applied = None

\* a python snippet that holds `eval(` has been answered with the message
\* that names `eval(`
C7_Witness ==
    \E r \in Reqs :
        /\ language[r] = "python"
        /\ Contains(Lower(user_code[r]), "eval(")
        /\ pc[r] = "done"
        /\ response[r][1].body = "Code contains potentially dangerous pattern: eval("
        /\ Len(log_calls[r]) = 1

C9_RecorderFailureSwallowed ==
    \A r \in Reqs :
        /\ pc[r] # "raised"
        /\ pc[r] = "done" =>
               /\ log_calls[r] # <<>>
               /\ LET last == log_calls[r][Len(log_calls[r])].args
                  IN  IF last.success
                      THEN /\ response[r][1].status = 200
                           /\ response[r][1].artifact # None
                      ELSE /\ response[r][1].status \in {400, 500}
                           /\ response[r][1].body = last.error_message[1]
                           /\ response[r][1].artifact = None

\* with the store down, one request has been answered with its PDF and one
\* with an error, after recorder calls that failed
C9_Witness ==
    \E r, q \in Reqs :
        /\ database = "down"
        /\ pc[r] = "done" /\ response[r][1].status = 200
        /\ log_calls[r][1].outcome = "failed"
        /\ pc[q] = "done" /\ response[q][1].status = 400
        /\ log_calls[q][1].outcome = "failed"

C11_NoRenormalization ==
    \A r \in Reqs :
        (r > 1 /\ pc[r] = "called" /\ language[r] = "python") =>
            \A k \in 1..Len(fixes_applied[r]) :
                /\ fixes_applied[r][k] # "Fixed smart quotes * regular quotes"
                /\ ~StartsWith(fixes_applied[r][k], "Fixed unicode character: ")
                /\ ~StartsWith(fixes_applied[r][k], "Fixed variable name: ")

\* C12: when auto_fix_python_code is called on a snippet that binds the list
\* `story`, appends to it with `story.append(` and holds no build call, the
\* code it returns holds `pdf.build(story)` exactly once, and after the last
\* `story.append(`.
C12_BuildCallCompleted ==
    \A r \in Reqs :
        LET code == user_code[r]
            Occurrences(s, p) == {i \in 1..(Len(s) - Len(p) + 1) : Slice(s, i, Len(p)) = p}
            builds == Occurrences(fixed_code[r], "pdf.build(story)")
            appends == Occurrences(fixed_code[r], "story.append(")
        IN  ( /\ pc[r] = "called"
              /\ language[r] = "python"
              /\ Contains(code, "story = [") \/ Contains(code, "story=[")
              /\ Contains(code, "story.append(")
              /\ ~Contains(code, ".build(") ) =>
                /\ Cardinality(builds) = 1
                /\ \A b \in builds, a \in appends : a < b

\* C13: when auto_fix_matplotlib_code is called on a snippet that uses `plt.`
\* or `pyplot` and imports nothing of matplotlib, the code it returns begins
\* with the import block and holds `matplotlib.use('Agg')` exactly once.
C13_ImportBlockAdded ==
    \A r \in Reqs :
        LET code == user_code[r]
            Occurrences(s, p) == {i \in 1..(Len(s) - Len(p) + 1) : Slice(s, i, Len(p)) = p}
        IN  ( /\ pc[r] = "called"
              /\ language[r] = "matplotlib"
              /\ Contains(code, "plt.") \/ Contains(code, "pyplot")
              /\ ~Contains(code, "import matplotlib")
              /\ ~Contains(code, "from matplotlib") ) =>
                /\ StartsWith(fixed_code[r], matplotlib_imports)
                /\ Cardinality(Occurrences(fixed_code[r], "matplotlib.use('Agg')")) = 1

C15_TypographicQuotesFixed ==
    \A r \in Reqs :
        LET Typographic(s) == Contains(s, "$") \/ Contains(s, "%")
            reported == \E k \in 1..Len(fixes_applied[r]) :
                            fixes_applied[r][k] = "Fixed smart quotes * regular quotes"
        IN  (pc[r] = "called" /\ language[r] = "python") =>
                /\ Typographic(user_code[r]) => (~Typographic(fixed_code[r]) /\ reported)
                /\ ~Typographic(user_code[r]) => ~reported

\* C16: once execute_python_code has finished for a request, by returning or
\* by raising, the temporary source file of the request does not exist; and
\* when the snippet raised, the error the request is answered with is the
\* snippet's own.
C16_TempSourceRemoved ==
    \A r \in Reqs :
        ( /\ language[r] \in {"python", "matplotlib"}
          /\ \E k \in 1..Len(invoked[r]) : invoked[r][k] = "execute" ) =>
            /\ r \notin temp_files
            /\ (failure[r] = "execution" /\ response[r] # None) =>
                   response[r][1].body = "Code execution error: " \o SnippetError

\* C17: once the markup strategy has finished for a request, the temporary
\* HTML file of the request does not exist, whether the library rendered or
\* raised and whether the fallback subprocess exited with zero or not.
C17_TempHtmlRemoved ==
    \A r \in Reqs :
        ( /\ language[r] = "html"
          /\ \E k \in 1..Len(invoked[r]) : invoked[r][k] = "execute" ) =>
            r \notin temp_files

\* C18: when a snippet without the carve-out substring holds, in any letter
\* case, several of the disallowed patterns, the one rejection generate_pdf
\* answers and records names the pattern that comes first in the list
\* dangerous_patterns, wherever the patterns stand in the snippet; no pattern
\* after it is reported.
C18_FirstDeclaredPatternNamed ==
    \A r \in Reqs :
        LET matched == {k \in 1..Len(dangerous_patterns) :
                           Contains(Lower(user_code[r]), dangerous_patterns[k])}
            first == CHOOSE k \in matched : \A j \in matched : k <= j
            message == "Code contains potentially dangerous pattern: "
                           \o dangerous_patterns[first]
        IN  ( /\ pc[r] = "done"
              /\ language[r] \in {"python", "html", "matplotlib", "javascript"}
              /\ ~Contains(user_code[r], "exec(compile(open(temp_file_path).read()")
              /\ Cardinality(matched) > 1 ) =>
                /\ response[r][1].body = message
                /\ Len(log_calls[r]) = 1
                /\ log_calls[r][1].args.error_message = Some(message)

\* a snippet that holds `getattr(`, then `open(` and then `eval(`, two of them
\* in capitals, has been answered with the message that names `eval(`
C18_Witness ==
    \E r \in Reqs :
        /\ pc[r] = "done"
        /\ user_code[r] = "v = getattr(OPEN(f), 'Eval(')"
        /\ Find(Lower(user_code[r]), "getattr(", 1) < Find(Lower(user_code[r]), "eval(", 1)
        /\ response[r][1].body = "Code contains potentially dangerous pattern: eval("

C20_EntryPointCalledOnce ==
    \A r \in Reqs :
        LET code == user_code[r]
            names == FunctionNames(code)
            call == names[1] \o "("
            calls == {i \in 1..(Len(code) - Len(call) + 1) :
                         /\ Slice(code, i, Len(call)) = call
                         /\ ~(i > 4 /\ Slice(code, i - 4, 4) = "def ")}
            appended == \E k \in 1..Len(fixes_applied[r]) :
                            \/ fixes_applied[r][k] = "Added missing function call"
                            \/ fixes_applied[r][k] = "Added missing " \o names[1] \o "() call"
        IN  (pc[r] = "called" /\ language[r] = "python" /\ names # <<>>) =>
                /\ calls = {} =>
                       /\ appended
                       /\ Contains(fixed_code[r], "\n\n# Auto-added function call\n")
                       /\ Contains(fixed_code[r], names[1] \o "()")
                /\ calls # {} => ~appended
                /\ r > 1 => ~appended

\* C21: when auto_fix_python_code is called on a snippet that defines a
\* callable and holds neither `try:` nor `except`, and entry-point completion
\* appends a call, of whatever callable, then the code returned holds that call
\* inside a try/except that prints a success or a failure message, and the fix
\* list holds 'Added error handling'.
C21_AppendedCallWrapped ==
    \A r \in Reqs :
        LET code == user_code[r]
            names == FunctionNames(code)
            byGuard == \E k \in 1..Len(fixes_applied[r]) :
                           fixes_applied[r][k] = "Added missing function call"
            byName == /\ names # <<>>
                      /\ \E k \in 1..Len(fixes_applied[r]) :
                             fixes_applied[r][k] = "Added missing " \o names[1] \o "() call"
            name == IF byGuard THEN "build_pdf" ELSE names[1]
        IN  ( /\ pc[r] = "called"
              /\ language[r] = "python"
              /\ Contains(code, "def ")
              /\ ~Contains(code, "try:")
              /\ ~Contains(code, "except")
              /\ byGuard \/ byName ) =>
                /\ Contains(fixed_code[r], "try:\n    " \o name \o "()\n    print(")
                /\ Contains(fixed_code[r], "\nexcept Exception as e:\n    print(")
                /\ \E k \in 1..Len(fixes_applied[r]) :
                       fixes_applied[r][k] = "Added error handling"

\* C22: auto_fix_html_code leaves an `&` that begins an entity as it is: the
\* code it returns holds `&amp;amp;` only where the snippet does; and called
\* on its own output it changes no `&` and reports no `&` fix.
C22_AmpersandEncodedOnce ==
    \A r \in Reqs :
        LET Occurrences(s, p) == {i \in 1..(Len(s) - Len(p) + 1) : Slice(s, i, Len(p)) = p}
        IN  (pc[r] = "called" /\ language[r] = "html") =>
                /\ Cardinality(Occurrences(fixed_code[r], "&amp;amp;"))
                       = Cardinality(Occurrences(user_code[r], "&amp;amp;"))
                /\ r > 1 =>
                       /\ Cardinality(Occurrences(fixed_code[r], "amp;"))
                              = Cardinality(Occurrences(user_code[r], "amp;"))
                       /\ \A k \in 1..Len(fixes_applied[r]) :
                              fixes_applied[r][k] # "Fixed HTML: & * &amp;"

\* C23: when auto_fix_matplotlib_code is called on a snippet that holds
\* `import matplotlib` and no `matplotlib.use(`, every import line of the
\* snippet is a line of the code returned, and that code holds
\* `matplotlib.use('Agg')` exactly once, as a line of its own.
C23_BackendDirectiveOnOwnLine ==
    \A r \in Reqs :
        LET Occurrences(s, p) == {i \in 1..(Len(s) - Len(p) + 1) : Slice(s, i, Len(p)) = p}
            before == Split(user_code[r], "\n")
            after == Split(fixed_code[r], "\n")
            IsImport(line) == \/ StartsWith(line, "import matplotlib")
                              \/ StartsWith(line, "from matplotlib")
        IN  ( /\ pc[r] = "called"
              /\ language[r] = "matplotlib"
              /\ Contains(user_code[r], "import matplotlib")
              /\ ~Contains(user_code[r], "matplotlib.use(") ) =>
                /\ \A i \in 1..Len(before) :
                       IsImport(before[i]) => \E j \in 1..Len(after) : after[j] = before[i]
                /\ Cardinality(Occurrences(fixed_code[r], "matplotlib.use('Agg')")) = 1
                /\ \E j \in 1..Len(after) : after[j] = "matplotlib.use('Agg')"

\* C24: when the wrapping rule of auto_fix_python_code is the only rule,
\* besides entry-point completion, that changes a snippet, every line of the
\* snippet other than a call `build_pdf()` is a line of the code returned, the
\* line `def build_pdf():` among them.
C24_WrapChangesOnlyTheCall ==
    \A r \in Reqs :
        LET before == Split(user_code[r], "\n")
            after == Split(fixed_code[r], "\n")
            Untouched(fix) ==
                \/ fix = "Fixed smart quotes * regular quotes"
                \/ fix = "Added missing function call"
                \/ fix = "Added missing build_pdf() call"
                \/ fix = "Added error handling"
        IN  ( /\ pc[r] = "called"
              /\ language[r] = "python"
              /\ \E k \in 1..Len(fixes_applied[r]) : fixes_applied[r][k] = "Added error handling"
              /\ \A k \in 1..Len(fixes_applied[r]) : Untouched(fixes_applied[r][k]) ) =>
                \A i \in 1..Len(before) :
                    Strip(before[i]) # "build_pdf()" =>
                        \E j \in 1..Len(after) : after[j] = before[i]

====
